---- MODULE Spec2Model ----
(***************************************************************************)
(* Model of bpdaily's package dlycsv (src/dlycsv/daily.go): the conversion *)
(* of a blood pressure CSV export, one reading per line, into one line per *)
(* day.  Text is modelled as a sequence of character codes, so that the    *)
(* comparisons the code makes on strings (sort order, equality with the    *)
(* discard marker, the ten character day prefix) are computed on the       *)
(* characters, and the timestamp conversion is a real parse and a real     *)
(* format.                                                                 *)
(***************************************************************************)
EXTENDS Integers, Sequences, FiniteSets, TLC

VARIABLES
    inExists,     \* the input path names a readable file
    inRecords,    \* the CSV records of the input file, header first
    outKind,      \* what the output path names: "absent", "file", "dir", "noaccess"
    outWritable,  \* os.OpenFile on the output path would succeed
    outContent,   \* the CSV records stored in the output file
    outBefore,    \* kind and content of the output path when the call was made
    overwrite,    \* the overwrite argument
    pc,           \* position in the call chain
    err,          \* the error returned, as its chain of wrapped messages
    inOpen,       \* the input handle is open
    outOpen,      \* the output handle is open
    inOpened,     \* os.Open was called on the input path
    outOpened,    \* os.OpenFile was called on the output path
    records,      \* the working row set of sortInput
    maxReadingsInOneDay, \* the value returned by combineRecordsForSameDay
    wbuf,         \* rows held in the csv.Writer's buffer
    handed,       \* number of rows passed to the csv.Writer
    flushCalled,  \* the writer was flushed after the last row it was passed
    program,      \* the caller: "dlycsv" (the function itself), "bpdaily", "main.go"
    argc,         \* len(os.Args)
    unitTesting,  \* the unitTesting flag of package main
    mainState,    \* "none", "running", "returned", "exit 1"
    stdout        \* the lines main printed

vars == <<inExists, inRecords, outKind, outWritable, outContent, outBefore,
          overwrite, pc,
          err, inOpen, outOpen, inOpened, outOpened, records,
          maxReadingsInOneDay, wbuf, handed, flushCalled, program, argc,
          unitTesting, mainState, stdout>>

\* the state of package main
cli == <<program, argc, unitTesting, mainState, stdout>>

\* what is recorded of the calls made on the csv.Writer
writerLog == <<handed, flushCalled>>

(***************************************************************************)
(* Bounds                                                                  *)
(***************************************************************************)
MaxRows == 4

\* rows of the input files package main is run on
MaxMainRows == 2

\* largest len(os.Args)
MaxArgs == 4

\* rows of the row sets the passes are applied to directly
MaxRawRows == 3

(***************************************************************************)
(* Text                                                                    *)
(***************************************************************************)
\* "!!!!", a marker that sorts before every digit
discardMarkerSortingFirst == <<33, 33, 33, 33>>

\* "ZZZZ"
discardMarker == <<90, 90, 90, 90>>

\* "Date Time", "Systolic", "Diastolic", "Pulse", "Note"
ColumnNames ==
    << <<68, 97, 116, 101, 32, 84, 105, 109, 101>>,
       <<83, 121, 115, 116, 111, 108, 105, 99>>,
       <<68, 105, 97, 115, 116, 111, 108, 105, 99>>,
       <<80, 117, 108, 115, 101>>,
       <<78, 111, 116, 101>> >>

\* "Jan", "Feb", ... "Dec"
shortMonthNames ==
    << <<74, 97, 110>>, <<70, 101, 98>>, <<77, 97, 114>>, <<65, 112, 114>>,
       <<77, 97, 121>>, <<74, 117, 110>>, <<74, 117, 108>>, <<65, 117, 103>>,
       <<83, 101, 112>>, <<79, 99, 116>>, <<78, 111, 118>>, <<68, 101, 99>> >>

Min(a, b) == IF a < b THEN a ELSE b

\* Go's < on strings: bytewise lexicographic order
Less(a, b) ==
    \E i \in 1..(Min(Len(a), Len(b)) + 1) :
        /\ \A k \in 1..(i - 1) : a[k] = b[k]
        /\ \/ i > Len(a) /\ i <= Len(b)
           \/ i <= Len(a) /\ i <= Len(b) /\ a[i] < b[i]

IsDigit(c) == c \in 48..57

\* decimal value of a run of digits
RECURSIVE Atoi(_)
Atoi(s) == IF s = <<>> THEN 0
           ELSE 10 * Atoi(SubSeq(s, 1, Len(s) - 1)) + (s[Len(s)] - 48)

\* strconv.Itoa for a non-negative number
RECURSIVE Itoa(_)
Itoa(n) == IF n < 10 THEN <<48 + n>>
           ELSE Itoa(n \div 10) \o <<48 + (n % 10)>>

\* zero padded decimal of width w
RECURSIVE Pad(_, _)
Pad(n, w) == IF w = 0 THEN <<>>
             ELSE Pad(n \div 10, w - 1) \o <<48 + (n % 10)>>

(***************************************************************************)
(* time.Parse("Jan 02 2006 15:04:05", v) and                               *)
(* Time.Format("2006-01-02 15:04:05"), for values written with a two digit *)
(* hour and no fractional seconds (the form of every input drawn below).   *)
(***************************************************************************)
isLeap(year) == year % 4 = 0 /\ (year % 100 # 0 \/ year % 400 = 0)

daysIn(month, year) ==
    IF month = 2 THEN (IF isLeap(year) THEN 29 ELSE 28)
    ELSE IF month \in {4, 6, 9, 11} THEN 30 ELSE 31

\* number of the month whose abbreviation is s, 0 when there is none
lookupMonth(s) ==
    IF \E m \in 1..12 : shortMonthNames[m] = s
    THEN CHOOSE m \in 1..12 : shortMonthNames[m] = s
    ELSE 0

AllDigits(s) == \A i \in 1..Len(s) : IsDigit(s[i])

\* the layout is matched piece by piece: "Jan", " ", "02", " ", "2006",
\* " ", "15", ":", "04", ":", "05", and nothing may follow
ParseOK(v) ==
    /\ Len(v) = 20
    /\ lookupMonth(SubSeq(v, 1, 3)) # 0
    /\ v[4] = 32
    /\ AllDigits(SubSeq(v, 5, 6))
    /\ v[7] = 32
    /\ AllDigits(SubSeq(v, 8, 11))
    /\ v[12] = 32
    /\ AllDigits(SubSeq(v, 13, 14))
    /\ v[15] = 58
    /\ AllDigits(SubSeq(v, 16, 17))
    /\ v[18] = 58
    /\ AllDigits(SubSeq(v, 19, 20))
    /\ Atoi(SubSeq(v, 13, 14)) < 24
    /\ Atoi(SubSeq(v, 16, 17)) < 60
    /\ Atoi(SubSeq(v, 19, 20)) < 60
    /\ Atoi(SubSeq(v, 5, 6)) >= 1
    /\ Atoi(SubSeq(v, 5, 6)) <=
           daysIn(lookupMonth(SubSeq(v, 1, 3)), Atoi(SubSeq(v, 8, 11)))

ParseTime(v) ==
    [year   |-> Atoi(SubSeq(v, 8, 11)),
     month  |-> lookupMonth(SubSeq(v, 1, 3)),
     day    |-> Atoi(SubSeq(v, 5, 6)),
     hour   |-> Atoi(SubSeq(v, 13, 14)),
     minute |-> Atoi(SubSeq(v, 16, 17)),
     second |-> Atoi(SubSeq(v, 19, 20))]

\* "2006-01-02 15:04:05"
FormatTime(t) ==
    Pad(t.year, 4) \o <<45>> \o Pad(t.month, 2) \o <<45>> \o Pad(t.day, 2)
        \o <<32>> \o Pad(t.hour, 2) \o <<58>> \o Pad(t.minute, 2)
        \o <<58>> \o Pad(t.second, 2)

(***************************************************************************)
(* The passes of sortInput over the row set                                *)
(***************************************************************************)
\* a conversion that reduces a row it cannot parse to the marker alone
convertRecordDroppingFields(record) ==
    IF Len(record) # 0 /\ ParseOK(record[1])
    THEN [record EXCEPT ![1] = FormatTime(ParseTime(record[1]))]
    ELSE <<discardMarker>>

\* a conversion that leaves a row without fields as it is
convertRecordKeepingEmptyRows(record) ==
    IF Len(record) = 0 THEN record
    ELSE IF ParseOK(record[1])
    THEN <<FormatTime(ParseTime(record[1]))>> \o Tail(record)
    ELSE <<discardMarker>> \o Tail(record)

\* convertBPDateTimes: field 0 of each row becomes the sortable form of its
\* timestamp, or the discard marker
convertRecord(record) ==
    IF Len(record) # 0
    THEN IF ParseOK(record[1])
         THEN [record EXCEPT ![1] = FormatTime(ParseTime(record[1]))]
         ELSE [record EXCEPT ![1] = discardMarker]
    ELSE Append(record, discardMarker)

convertBPDateTimes(recs) == [i \in 1..Len(recs) |-> convertRecord(recs[i])]

IndexPermutations(n) ==
    {p \in [1..n -> 1..n] : \A i, j \in 1..n : i # j => p[i] # p[j]}

IsSortedByFirstField(recs) ==
    \A i \in 1..(Len(recs) - 1) : ~Less(recs[i + 1][1], recs[i][1])

\* a sort that leaves the rows as they are
sortSliceUnordered(recs) == {recs}

\* sort.Slice with less(i, j) = records[i][0] < records[j][0]: the sort is
\* not stable, so every arrangement in ascending order of field 0 is a
\* possible result
sortSlice(recs) ==
    {s \in {[i \in 1..Len(recs) |-> recs[p[i]]] : p \in IndexPermutations(Len(recs))} :
        IsSortedByFirstField(s)}

\* the date portion of a first field, record[0][0:10]
dateOfYearOnly(field) == SubSeq(field, 1, 4)

dateOf(field) == SubSeq(field, 1, 10)

\* append(accumulator, record...)
appendReadingInFront(accumulator, record) == record \o accumulator

appendReading(accumulator, record) == accumulator \o record

\* the loop of combineRecordsForSameDay from position index (1-based) on;
\* st holds the row set and the loop's local variables
RECURSIVE combineLoop(_, _)
combineLoop(st, index) ==
    IF index > Len(st.records) THEN st
    ELSE LET record == st.records[index] IN
         IF record[1] = discardMarker THEN st
         ELSE LET recordDate == dateOf(record[1]) IN
              IF index = 1
              THEN combineLoop([st EXCEPT !.accumulateDate = recordDate], index + 1)
              ELSE IF recordDate = st.accumulateDate
              THEN combineLoop(
                       [st EXCEPT
                          !.records = [@ EXCEPT
                              ![st.accumulateIndex] = appendReading(@, record),
                              ![index] = [@ EXCEPT ![1] = discardMarker]],
                          !.readingsAccumulatedSoFar = @ + 1],
                       index + 1)
              ELSE combineLoop(
                       [st EXCEPT
                          !.maxReadingsInOneDay =
                              IF st.readingsAccumulatedSoFar > @
                              THEN st.readingsAccumulatedSoFar ELSE @,
                          !.accumulateIndex = index,
                          !.accumulateDate = recordDate,
                          !.readingsAccumulatedSoFar = 1],
                       index + 1)

\* a merge that also counts the run the loop ends in
combineRecordsCountingLastRun(recs) ==
    LET st == combineLoop([records |-> recs,
                           accumulateIndex |-> 1,
                           accumulateDate |-> <<>>,
                           readingsAccumulatedSoFar |-> 1,
                           maxReadingsInOneDay |-> 1], 1)
    IN [records |-> st.records,
        max |-> IF st.readingsAccumulatedSoFar > st.maxReadingsInOneDay
                THEN st.readingsAccumulatedSoFar ELSE st.maxReadingsInOneDay]

\* combineRecordsForSameDay: the row set after the merge and the returned
\* maximum
combineRecordsForSameDay(recs) ==
    LET st == combineLoop([records |-> recs,
                           accumulateIndex |-> 1,
                           accumulateDate |-> <<>>,
                           readingsAccumulatedSoFar |-> 1,
                           maxReadingsInOneDay |-> 1], 1)
    IN [records |-> st.records, max |-> st.maxReadingsInOneDay]

\* a backward scan that also tests the first row
RECURSIVE lastGoodIndexFromZero(_, _)
lastGoodIndexFromZero(recs, index) ==
    IF index >= 0 /\ recs[index + 1][1] = discardMarker
    THEN lastGoodIndexFromZero(recs, index - 1)
    ELSE index

\* the backward scan of discardMarkedRecords, 0-based as in the code
RECURSIVE lastGoodIndex(_, _)
lastGoodIndex(recs, index) ==
    IF index > 0 /\ recs[index + 1][1] = discardMarker
    THEN lastGoodIndex(recs, index - 1)
    ELSE index

\* the truncation of discardMarkedRecords, applied to the sorted row set
trimRecords(recs) == SubSeq(recs, 1, lastGoodIndex(recs, Len(recs) - 1) + 1)

\* discardMarkedRecords: every result the sort and the truncation can give
discardMarkedRecords(recs) == {trimRecords(s) : s \in sortSlice(recs)}

\* addHeadingSet: the five column names followed by " " and the set number
addHeadingSet(header, setNumber) ==
    header \o [c \in 1..Len(ColumnNames) |->
                  ColumnNames[c] \o <<32>> \o Itoa(setNumber)]

\* buildHeaderRecord
RECURSIVE buildHeaderLoop(_, _, _)
buildHeaderLoop(header, i, n) ==
    IF i < n THEN buildHeaderLoop(addHeadingSet(header, i + 1), i + 1, n)
    ELSE header

buildHeaderRecord(n) == buildHeaderLoop(<<>>, 0, n)

(***************************************************************************)
(* Input files and output targets the conversion is run on                 *)
(***************************************************************************)
\* "Jan 02 2020 08:00:00", "118", "79", "60", ""
RowMorning ==
    << <<74, 97, 110, 32, 48, 50, 32, 50, 48, 50, 48, 32,
         48, 56, 58, 48, 48, 58, 48, 48>>,
       <<49, 49, 56>>, <<55, 57>>, <<54, 48>>, <<>> >>

\* "Jan 02 2020 20:00:00", "131", "85", "72", ""
RowEvening ==
    << <<74, 97, 110, 32, 48, 50, 32, 50, 48, 50, 48, 32,
         50, 48, 58, 48, 48, 58, 48, 48>>,
       <<49, 51, 49>>, <<56, 53>>, <<55, 50>>, <<>> >>

\* "Feb 01 2020 09:30:00", "125", "81", "66", ""
RowNextMonth ==
    << <<70, 101, 98, 32, 48, 49, 32, 50, 48, 50, 48, 32,
         48, 57, 58, 51, 48, 58, 48, 48>>,
       <<49, 50, 53>>, <<56, 49>>, <<54, 54>>, <<>> >>

\* "Feb 30 2020 09:30:00", "140", "90", "80", "": no such day
RowBadDate ==
    << <<70, 101, 98, 32, 51, 48, 32, 50, 48, 50, 48, 32,
         48, 57, 58, 51, 48, 58, 48, 48>>,
       <<49, 52, 48>>, <<57, 48>>, <<56, 48>>, <<>> >>

\* "Jan 02 2020 08:00:00", "118", "79", "60": a field is missing
RowShort == SubSeq(RowMorning, 1, 4)

RowChoices == {RowMorning, RowEvening, RowNextMonth, RowBadDate, RowShort}

\* every sequence over S of length at most n
RECURSIVE SeqsUpTo(_, _)
SeqsUpTo(S, n) ==
    IF n = 0 THEN {<<>>}
    ELSE LET shorter == SeqsUpTo(S, n - 1)
         IN shorter \cup {Append(q, x) : q \in {r \in shorter : Len(r) = n - 1}, x \in S}

\* first records: the expected header, one with four columns, one with a
\* wrong name ("Date Time", "Systolic", "Diastolic", "Note", "Pulse")
HeaderChoices ==
    { ColumnNames,
      SubSeq(ColumnNames, 1, 4),
      <<ColumnNames[1], ColumnNames[2], ColumnNames[3], ColumnNames[5], ColumnNames[4]>> }

\* the empty file, and every first record followed by up to MaxRows rows
InputFiles ==
    {<<>>} \cup {<<h>> \o body : h \in HeaderChoices, body \in SeqsUpTo(RowChoices, MaxRows)}

\* "stale": what an output file holds before the conversion runs
OldContent == << << <<115, 116, 97, 108, 101>> >> >>

Init ==
    /\ inExists \in BOOLEAN
    /\ inRecords \in InputFiles
    /\ outKind \in {"absent", "file", "dir", "noaccess"}
    /\ outWritable \in BOOLEAN
    /\ outContent = IF outKind = "file" THEN OldContent ELSE <<>>
    /\ outBefore = [kind |-> outKind, content |-> outContent]
    /\ overwrite \in BOOLEAN
    /\ pc = "ConvertBloodPressureCSVToDaily"
    /\ err = <<>>
    /\ inOpen = FALSE
    /\ outOpen = FALSE
    /\ inOpened = FALSE
    /\ outOpened = FALSE
    /\ records = <<>>
    /\ maxReadingsInOneDay = 0
    /\ wbuf = <<>>
    /\ handed = 0
    /\ flushCalled = FALSE
    /\ program = "dlycsv"
    /\ argc = 3
    /\ unitTesting = TRUE
    /\ mainState = "none"
    /\ stdout = <<>>

(***************************************************************************)
(* ConvertBloodPressureCSVToDaily and the functions it hands off to        *)
(***************************************************************************)
\* the check without the test of the overwrite flag
canWeWriteToFileAnyFile(kind, ow) ==
    IF kind = "dir" THEN <<"cannot overwrite a directory">>
    ELSE IF kind = "noaccess" THEN <<"cannot access output file">>
    ELSE <<>>

\* the check without the test for a directory
canWeWriteToFileNoDirTest(kind, ow) ==
    IF kind \in {"file", "dir"} /\ ~ow THEN <<"cannot overwrite existing file">>
    ELSE IF kind = "noaccess" THEN <<"cannot access output file">>
    ELSE <<>>

\* canWeWriteToFile: the error it returns, <<>> for nil
canWeWriteToFile(kind, ow) ==
    IF kind = "dir" THEN <<"cannot overwrite a directory">>
    ELSE IF kind = "file" /\ ~ow THEN <<"cannot overwrite existing file">>
    ELSE IF kind = "noaccess" THEN <<"cannot access output file">>
    ELSE <<>>

\* a call that opens the input before it checks the output target
ConvertOpeningInputFirst ==
    /\ pc = "ConvertBloodPressureCSVToDaily"
    /\ inOpened' = TRUE
    /\ IF ~inExists
       THEN /\ err' = <<"could not open input file">>
            /\ pc' = "done"
            /\ UNCHANGED inOpen
       ELSE IF canWeWriteToFile(outKind, overwrite) # <<>>
       THEN /\ err' = <<"output file already exists">>
                          \o canWeWriteToFile(outKind, overwrite)
            /\ pc' = "closeInput"
            /\ inOpen' = TRUE
       ELSE /\ inOpen' = TRUE
            /\ pc' = "checkForHeaderRecord"
            /\ UNCHANGED err
    /\ UNCHANGED <<cli, writerLog, outBefore, inExists, inRecords, outKind,
                   outWritable, outContent, overwrite, outOpen, outOpened,
                   records, maxReadingsInOneDay, wbuf>>

\* ConvertBloodPressureCSVToDaily up to the hand off: the output target
\* check, then os.Open of the input path
ConvertBloodPressureCSVToDaily ==
    /\ pc = "ConvertBloodPressureCSVToDaily"
    /\ IF canWeWriteToFile(outKind, overwrite) # <<>>
       THEN /\ err' = <<"output file already exists">>
                          \o canWeWriteToFile(outKind, overwrite)
            /\ pc' = "done"
            /\ UNCHANGED <<inOpen, inOpened>>
       ELSE IF ~inExists
       THEN /\ err' = <<"could not open input file">>
            /\ pc' = "done"
            /\ inOpened' = TRUE
            /\ UNCHANGED inOpen
       ELSE /\ inOpen' = TRUE
            /\ inOpened' = TRUE
            /\ pc' = "checkForHeaderRecord"
            /\ UNCHANGED err
    /\ UNCHANGED <<cli, writerLog, outBefore, inExists, inRecords, outKind, outWritable, outContent,
                   overwrite, outOpen, outOpened, records,
                   maxReadingsInOneDay, wbuf>>

\* the test without the comparison of the last two names
headerMatchesFirstThree(headerRecord) ==
    /\ Len(headerRecord) = 5
    /\ headerRecord[1] = ColumnNames[1]
    /\ headerRecord[2] = ColumnNames[2]
    /\ headerRecord[3] = ColumnNames[3]

\* the test of checkForHeaderRecord on the first record
headerMatches(headerRecord) ==
    /\ Len(headerRecord) = 5
    /\ headerRecord[1] = ColumnNames[1]
    /\ headerRecord[2] = ColumnNames[2]
    /\ headerRecord[3] = ColumnNames[3]
    /\ headerRecord[4] = ColumnNames[4]
    /\ headerRecord[5] = ColumnNames[5]

checkForHeaderRecord ==
    /\ pc = "checkForHeaderRecord"
    /\ IF inRecords = <<>>
       THEN /\ err' = <<"failed to read blood pressure CSV header record">>
            /\ pc' = "closeInput"
       ELSE IF ~headerMatches(inRecords[1])
       THEN /\ err' = <<"header record of input file does not match blood pressure CSV format">>
            /\ pc' = "closeInput"
       ELSE /\ pc' = "openOutputFile"
            /\ UNCHANGED err
    /\ UNCHANGED <<cli, writerLog, outBefore, inExists, inRecords, outKind, outWritable, outContent,
                   overwrite, inOpen, outOpen, inOpened, outOpened, records,
                   maxReadingsInOneDay, wbuf>>

\* an open without O_TRUNC
notTruncated(content) == content

\* os.OpenFile(outputPath, O_RDWR|O_CREATE|O_TRUNC): the content of the
\* file once it is open
truncated(content) == <<>>

openOutputFile ==
    /\ pc = "openOutputFile"
    /\ outOpened' = TRUE
    /\ IF ~outWritable \/ outKind \in {"dir", "noaccess"}
       THEN /\ err' = <<"failed to open output file">>
            /\ pc' = "closeInput"
            /\ UNCHANGED <<outKind, outContent, outOpen>>
       ELSE /\ outKind' = "file"
            /\ outContent' = truncated(outContent)
            /\ outOpen' = TRUE
            /\ pc' = "sortInput"
            /\ UNCHANGED err
    /\ UNCHANGED <<cli, writerLog, outBefore, inExists, inRecords, outWritable, overwrite, inOpen,
                   inOpened, records, maxReadingsInOneDay, wbuf>>

\* a ReadAll that reports the end of the file when no record follows the
\* header
readAllFailsOnNoRows(file) ==
    Len(file) < 2 \/ \E i \in 2..Len(file) : Len(file[i]) # Len(file[1])

\* a ReadAll that accepts any number of fields
readAllAcceptsAll(file) == FALSE

\* csv.Reader.ReadAll after the header was read: a record whose field count
\* differs from the first record's is an error
readAllFails(file) == \E i \in 2..Len(file) : Len(file[i]) # Len(file[1])

\* sortInput, reader.ReadAll()
sortInput ==
    /\ pc = "sortInput"
    /\ IF readAllFails(inRecords)
       THEN /\ err' = <<"failed to read body of input file">>
            /\ pc' = "closeOutput"
            /\ UNCHANGED records
       ELSE /\ records' = Tail(inRecords)
            /\ pc' = "convertBPDateTimes"
            /\ UNCHANGED err
    /\ UNCHANGED <<cli, writerLog, outBefore, inExists, inRecords, outKind, outWritable, outContent,
                   overwrite, inOpen, outOpen, inOpened, outOpened,
                   maxReadingsInOneDay, wbuf>>

\* sortInput, convertBPDateTimes(&records)
ConvertDateTimes ==
    /\ pc = "convertBPDateTimes"
    /\ records' = convertBPDateTimes(records)
    /\ pc' = "sort"
    /\ UNCHANGED <<cli, writerLog, outBefore, inExists, inRecords, outKind, outWritable, outContent,
                   overwrite, err, inOpen, outOpen, inOpened, outOpened,
                   maxReadingsInOneDay, wbuf>>

\* sortInput, sort.Slice(records, ...)
SortRecords ==
    /\ pc = "sort"
    /\ records' \in sortSlice(records)
    /\ pc' = "combineRecordsForSameDay"
    /\ UNCHANGED <<cli, writerLog, outBefore, inExists, inRecords, outKind, outWritable, outContent,
                   overwrite, err, inOpen, outOpen, inOpened, outOpened,
                   maxReadingsInOneDay, wbuf>>

\* sortInput, maxReadingsInOneDay := combineRecordsForSameDay(&records)
CombineRecords ==
    /\ pc = "combineRecordsForSameDay"
    /\ records' = combineRecordsForSameDay(records).records
    /\ maxReadingsInOneDay' = combineRecordsForSameDay(records).max
    /\ pc' = "writeHeader"
    /\ UNCHANGED <<cli, writerLog, outBefore, inExists, inRecords, outKind, outWritable, outContent,
                   overwrite, err, inOpen, outOpen, inOpened, outOpened, wbuf>>

\* sortInput, writer.Write(buildHeaderRecord(maxReadingsInOneDay)): the row
\* goes to the writer's buffer
WriteHeader ==
    /\ pc = "writeHeader"
    /\ wbuf' = Append(wbuf, buildHeaderRecord(maxReadingsInOneDay))
    /\ handed' = handed + 1
    /\ \/ /\ pc' = "discardMarkedRecords"
          /\ UNCHANGED err
       \/ /\ err' = <<"failed to write header to output file">>
          /\ pc' = "closeOutput"
    /\ UNCHANGED <<cli, flushCalled, outBefore, inExists, inRecords, outKind, outWritable, outContent,
                   overwrite, inOpen, outOpen, inOpened, outOpened,
                   records, maxReadingsInOneDay>>

\* sortInput, discardMarkedRecords(&records)
DiscardRecords ==
    /\ pc = "discardMarkedRecords"
    /\ records' \in discardMarkedRecords(records)
    /\ pc' = "writeBody"
    /\ UNCHANGED <<cli, writerLog, outBefore, inExists, inRecords, outKind, outWritable, outContent,
                   overwrite, err, inOpen, outOpen, inOpened, outOpened,
                   maxReadingsInOneDay, wbuf>>

\* a WriteAll whose rows reach the file before the rows already buffered
WriteBodyBeforeHeader ==
    /\ pc = "writeBody"
    /\ handed' = handed + Len(records)
    /\ outContent' = outContent \o records \o wbuf
    /\ wbuf' = <<>>
    /\ flushCalled' = TRUE
    /\ pc' = "flush"
    /\ UNCHANGED <<cli, outBefore, inExists, inRecords, outKind, outWritable, overwrite,
                   err, inOpen, outOpen, inOpened, outOpened, records,
                   maxReadingsInOneDay>>

\* sortInput, writer.WriteAll(records): every row is written and the
\* buffer is flushed to the file; when a write to the file fails, the rows
\* that reached the file are some of the first ones and the others stay in
\* the buffer
WriteBody ==
    /\ pc = "writeBody"
    /\ handed' = handed + Len(records)
    /\ \/ /\ outContent' = outContent \o wbuf \o records
          /\ wbuf' = <<>>
          /\ flushCalled' = TRUE
          /\ UNCHANGED err
       \/ /\ \E k \in 0..(Len(wbuf \o records) - 1) :
                /\ outContent' = outContent \o SubSeq(wbuf \o records, 1, k)
                /\ wbuf' = SubSeq(wbuf \o records, k + 1, Len(wbuf \o records))
          /\ err' = <<"failed to write blood pressure data to output file">>
          /\ UNCHANGED flushCalled
    /\ pc' = "flush"
    /\ UNCHANGED <<cli, outBefore, inExists, inRecords, outKind, outWritable, overwrite,
                   inOpen, outOpen, inOpened, outOpened, records,
                   maxReadingsInOneDay>>

\* sortInput, the deferred writer.Flush(); after a failed write the writer
\* keeps its error and writes nothing more
Flush ==
    /\ pc = "flush"
    /\ flushCalled' = TRUE
    /\ IF err = <<>>
       THEN /\ outContent' = outContent \o wbuf
            /\ wbuf' = <<>>
       ELSE UNCHANGED <<outContent, wbuf>>
    /\ pc' = "closeOutput"
    /\ UNCHANGED <<cli, handed, outBefore, inExists, inRecords, outKind, outWritable, overwrite, err,
                   inOpen, outOpen, inOpened, outOpened, records,
                   maxReadingsInOneDay>>

\* openOutputFile, the deferred outputFile.Close()
CloseOutput ==
    /\ pc = "closeOutput"
    /\ outOpen' = FALSE
    /\ pc' = "closeInput"
    /\ UNCHANGED <<cli, writerLog, outBefore, inExists, inRecords, outKind, outWritable, outContent,
                   overwrite, err, inOpen, inOpened, outOpened, records,
                   maxReadingsInOneDay, wbuf>>

\* ConvertBloodPressureCSVToDaily, the deferred inputFile.Close()
CloseInput ==
    /\ pc = "closeInput"
    /\ inOpen' = FALSE
    /\ pc' = "done"
    /\ UNCHANGED <<cli, writerLog, outBefore, inExists, inRecords, outKind, outWritable, outContent,
                   overwrite, err, outOpen, inOpened, outOpened, records,
                   maxReadingsInOneDay, wbuf>>

Next ==
    \/ ConvertBloodPressureCSVToDaily
    \/ checkForHeaderRecord
    \/ openOutputFile
    \/ sortInput
    \/ ConvertDateTimes
    \/ SortRecords
    \/ CombineRecords
    \/ WriteHeader
    \/ DiscardRecords
    \/ WriteBody
    \/ Flush
    \/ CloseOutput
    \/ CloseInput

Spec == Init /\ [][Next]_vars

(***************************************************************************)
(* Package main: the command of src/unnamed/part_000 ("bpdaily"), which    *)
(* calls package dlycsv, and the command of src/main.go ("main.go"), which *)
(* has its own convertBloodPressureCSVToDaily and, after it, the same      *)
(* functions as package dlycsv.                                            *)
(***************************************************************************)
UsageMessage == "Usage: bpdaily input-file-path.csv output-file-path"

ArgumentsMessage ==
    "ERROR: Please provide two arguments, an input file path and and output file path"

InitMain ==
    /\ program \in {"bpdaily", "main.go"}
    /\ argc \in 1..MaxArgs
    /\ unitTesting \in BOOLEAN
    /\ mainState = "running"
    /\ stdout = <<>>
    /\ inExists \in BOOLEAN
    /\ inRecords \in {<<>>} \cup {<<h>> \o body :
                          h \in HeaderChoices, body \in SeqsUpTo(RowChoices, MaxMainRows)}
    /\ outKind \in {"absent", "file", "dir", "noaccess"}
    /\ outWritable \in BOOLEAN
    /\ outContent = IF outKind = "file" THEN OldContent ELSE <<>>
    /\ outBefore = [kind |-> outKind, content |-> outContent]
    /\ overwrite = FALSE
    /\ pc = "main"
    /\ err = <<>>
    /\ inOpen = FALSE
    /\ outOpen = FALSE
    /\ inOpened = FALSE
    /\ outOpened = FALSE
    /\ records = <<>>
    /\ maxReadingsInOneDay = 0
    /\ wbuf = <<>>
    /\ handed = 0
    /\ flushCalled = FALSE

\* a test that lets extra arguments pass
atLeastTwoArguments(n) == n >= 3

\* len(os.Args) == 3
twoArguments(n) == n = 3

\* main of bpdaily up to the call or the usage error
MainBpdaily ==
    /\ pc = "main" /\ program = "bpdaily"
    /\ IF twoArguments(argc)
       THEN /\ overwrite' = FALSE
            /\ pc' = "ConvertBloodPressureCSVToDaily"
            /\ UNCHANGED err
       ELSE /\ err' = <<UsageMessage>>
            /\ pc' = "done"
            /\ UNCHANGED overwrite
    /\ UNCHANGED <<cli, writerLog, outBefore, inExists, inRecords, outKind,
                   outWritable, outContent, inOpen, outOpen, inOpened,
                   outOpened, records, maxReadingsInOneDay, wbuf>>

\* main of bpdaily once executeError is set: the error is displayed and the
\* process exits unless under unit test
ReportBpdaily ==
    /\ pc = "done" /\ program = "bpdaily"
    /\ IF err # <<>>
       THEN /\ stdout' = Append(stdout, <<"ERROR - ">> \o err)
            /\ mainState' = IF ~unitTesting THEN "exit 1" ELSE "returned"
       ELSE /\ mainState' = "returned"
            /\ UNCHANGED stdout
    /\ pc' = "exited"
    /\ UNCHANGED <<program, argc, unitTesting, writerLog, outBefore, inExists,
                   inRecords, outKind, outWritable, outContent, overwrite, err,
                   inOpen, outOpen, inOpened, outOpened, records,
                   maxReadingsInOneDay, wbuf>>

\* len(os.Args) != 3
wrongArgumentCount(n) == n # 3

\* main of main.go up to the call or the exit
MainGo ==
    /\ pc = "main" /\ program = "main.go"
    /\ IF wrongArgumentCount(argc)
       THEN /\ stdout' = Append(stdout, <<ArgumentsMessage>>)
            /\ mainState' = "exit 1"
            /\ pc' = "exited"
            /\ UNCHANGED overwrite
       ELSE /\ overwrite' = FALSE
            /\ pc' = "convertBloodPressureCSVToDaily"
            /\ UNCHANGED <<stdout, mainState>>
    /\ UNCHANGED <<program, argc, unitTesting, writerLog, outBefore, inExists,
                   inRecords, outKind, outWritable, outContent, err, inOpen,
                   outOpen, inOpened, outOpened, records, maxReadingsInOneDay,
                   wbuf>>

\* convertBloodPressureCSVToDaily of main.go up to the hand off: os.Stat of
\* the output path, then os.Open of the input path
convertBloodPressureCSVToDaily ==
    /\ pc = "convertBloodPressureCSVToDaily"
    /\ IF outKind = "noaccess"
       THEN /\ err' = <<"output file already exists">>
            /\ pc' = "done"
            /\ UNCHANGED <<inOpen, inOpened>>
       ELSE IF ~inExists
       THEN /\ err' = <<"could not open input file">>
            /\ pc' = "done"
            /\ inOpened' = TRUE
            /\ UNCHANGED inOpen
       ELSE /\ inOpen' = TRUE
            /\ inOpened' = TRUE
            /\ pc' = "checkForHeaderRecord"
            /\ UNCHANGED err
    /\ UNCHANGED <<cli, writerLog, outBefore, inExists, inRecords, outKind,
                   outWritable, outContent, overwrite, outOpen, outOpened,
                   records, maxReadingsInOneDay, wbuf>>

\* main of main.go after the call: an error is displayed and the process
\* exits
ReportMainGo ==
    /\ pc = "done" /\ program = "main.go"
    /\ IF err # <<>>
       THEN /\ stdout' = Append(stdout, <<"ERROR - ">> \o err)
            /\ mainState' = "exit 1"
       ELSE /\ mainState' = "returned"
            /\ UNCHANGED stdout
    /\ pc' = "exited"
    /\ UNCHANGED <<program, argc, unitTesting, writerLog, outBefore, inExists,
                   inRecords, outKind, outWritable, outContent, overwrite, err,
                   inOpen, outOpen, inOpened, outOpened, records,
                   maxReadingsInOneDay, wbuf>>

NextMain ==
    \/ MainBpdaily
    \/ ReportBpdaily
    \/ MainGo
    \/ convertBloodPressureCSVToDaily
    \/ ReportMainGo
    \/ Next

SpecMain == InitMain /\ [][NextMain]_vars

(***************************************************************************)
(* The passes of sortInput applied to row sets given directly, as          *)
(* TestConversionOfEmptyRecords gives them to convertBPDateTimes: rows of  *)
(* no field and of one field are among them.                               *)
(***************************************************************************)
\* "n/a"
RowOneField == << <<110, 47, 97>> >>

RawRowChoices == RowChoices \cup {<<>>, RowOneField}

InitRows ==
    /\ records \in SeqsUpTo(RawRowChoices, MaxRawRows)
    /\ inRecords = <<ColumnNames>> \o records
    /\ pc = "convertBPDateTimes"
    /\ inExists = TRUE
    /\ outKind = "file"
    /\ outWritable = TRUE
    /\ outContent = <<>>
    /\ outBefore = [kind |-> "absent", content |-> <<>>]
    /\ overwrite = FALSE
    /\ err = <<>>
    /\ inOpen = TRUE
    /\ outOpen = TRUE
    /\ inOpened = TRUE
    /\ outOpened = TRUE
    /\ maxReadingsInOneDay = 0
    /\ wbuf = <<>>
    /\ handed = 0
    /\ flushCalled = FALSE
    /\ program = "dlycsv"
    /\ argc = 3
    /\ unitTesting = TRUE
    /\ mainState = "none"
    /\ stdout = <<>>

NextRows ==
    \/ ConvertDateTimes
    \/ SortRecords
    \/ CombineRecords
    \/ WriteHeader
    \/ DiscardRecords
    \/ WriteBody
    \/ Flush
    \/ CloseOutput
    \/ CloseInput

SpecRows == InitRows /\ [][NextRows]_vars

(***************************************************************************)
(* Properties                                                              *)
(***************************************************************************)
Succeeded == pc = "done" /\ err = <<>>

\* the first record is the five expected names in their order
HeaderIsValid == inRecords # <<>> /\ inRecords[1] = ColumnNames

\* the body rows of the input file and of the output file
InBody == Tail(inRecords)
OutBody == Tail(outContent)

\* positions of the input body rows whose timestamp parses
ValidRows == {i \in 1..Len(InBody) : ParseOK(InBody[i][1])}

\* the calendar day of an input row, as YYYY-MM-DD
DayOf(row) == SubSeq(FormatTime(ParseTime(row[1])), 1, 10)

InputDays == {DayOf(InBody[i]) : i \in ValidRows}

ReadingsOn(day) == Cardinality({i \in ValidRows : DayOf(InBody[i]) = day})

\* the largest number of valid readings on one day
MostReadingsOnOneDay ==
    CHOOSE m \in 1..Len(InBody) :
        /\ \E d \in InputDays : ReadingsOn(d) = m
        /\ \A d \in InputDays : ReadingsOn(d) <= m

\* the day prefix of a first field
DayPrefix(field) == SubSeq(field, 1, Min(10, Len(field)))

\* YYYY-MM-DD HH:MM:SS
IsNormalized(f) ==
    /\ Len(f) = 19
    /\ \A i \in {1, 2, 3, 4, 6, 7, 9, 10, 12, 13, 15, 16, 18, 19} : IsDigit(f[i])
    /\ f[5] = 45 /\ f[8] = 45 /\ f[11] = 32 /\ f[14] = 58 /\ f[17] = 58

HasMessage(e, m) == \E i \in 1..Len(e) : e[i] = m

\* C1: after a successful conversion of an input with at least one valid
\* reading, the header row has 5 x M columns, M the largest number of valid
\* readings on one day, and is as wide as the widest body row.
C1_HeaderWidth ==
    (Succeeded /\ ValidRows # {}) =>
        /\ Len(outContent[1]) = 5 * MostReadingsOnOneDay
        /\ \A i \in 1..Len(OutBody) : Len(OutBody[i]) <= Len(outContent[1])
        /\ \E i \in 1..Len(OutBody) : Len(OutBody[i]) = Len(outContent[1])

\* the ten column header: the five names suffixed 1, then suffixed 2
TwoReadingHeader ==
    [c \in 1..10 |-> ColumnNames[((c - 1) % 5) + 1] \o <<32, 49 + ((c - 1) \div 5)>>]

\* "2020-01-02 08:00:00",118,79,60,"","2020-01-02 20:00:00",131,85,72,""
TwoReadingRow ==
    << <<50, 48, 50, 48, 45, 48, 49, 45, 48, 50, 32, 48, 56, 58, 48, 48, 58, 48, 48>>,
       <<49, 49, 56>>, <<55, 57>>, <<54, 48>>, <<>>,
       <<50, 48, 50, 48, 45, 48, 49, 45, 48, 50, 32, 50, 48, 58, 48, 48, 58, 48, 48>>,
       <<49, 51, 49>>, <<56, 53>>, <<55, 50>>, <<>> >>

\* C2: the header and the two readings of Jan 02 2020 (08:00:00, 20:00:00)
\* give one body row of ten fields under the ten column header.
C2_TwoReadingsOneDay ==
    (Succeeded /\ inRecords = <<ColumnNames, RowMorning, RowEvening>>) =>
        outContent = <<TwoReadingHeader, TwoReadingRow>>

\* C3: no body row of the output has the discard marker as its first field.
C3_NoDiscardedRowWritten ==
    Succeeded => \A i \in 1..Len(OutBody) : OutBody[i][1] # discardMarker

C5_OneRowPerDay ==
    (Succeeded /\ ValidRows # {}) =>
        /\ \A i, j \in 1..Len(OutBody) :
               i # j => DayPrefix(OutBody[i][1]) # DayPrefix(OutBody[j][1])
        /\ {DayPrefix(OutBody[i][1]) : i \in 1..Len(OutBody)} = InputDays

\* a conversion that merged readings of one day and kept another day
C5_Witness ==
    /\ Succeeded
    /\ Cardinality(InputDays) = 2
    /\ Cardinality(ValidRows) >= 3
    /\ Len(InBody) > Cardinality(ValidRows)
    /\ Len(OutBody) = 2

\* C6: a kept body row has 5 x k fields, k the number of valid readings on
\* its day; the fields at 0, 5, 10, ... are normalized timestamps of that day
\* in ascending order.
C6_MergedRowShape ==
    Succeeded =>
        \A i \in 1..Len(OutBody) :
            LET row == OutBody[i] IN
            row[1] # discardMarker =>
                /\ Len(row) = 5 * ReadingsOn(DayPrefix(row[1]))
                /\ \A k \in 0..((Len(row) \div 5) - 1) :
                       /\ IsNormalized(row[5 * k + 1])
                       /\ DayPrefix(row[5 * k + 1]) = DayPrefix(row[1])
                       /\ k > 0 => ~Less(row[5 * k + 1], row[5 * (k - 1) + 1])

\* a row of three readings whose input order was not the time order
C6_Witness ==
    /\ Succeeded
    /\ \E i \in 1..Len(OutBody) :
           /\ Len(OutBody[i]) = 15
           /\ Less(OutBody[i][1], OutBody[i][11])
    /\ \E i, j \in ValidRows : i < j /\ Less(InBody[j][1], InBody[i][1])
                                  /\ DayOf(InBody[i]) = DayOf(InBody[j])

\* C7: with overwrite false and a regular file at the output path, the call
\* returns an "output file already exists" error and the file keeps its
\* content.
C7_ExistingFileKept ==
    (outBefore.kind = "file" /\ ~overwrite) =>
        /\ outKind = "file"
        /\ outContent = outBefore.content
        /\ ~outOpened
        /\ pc = "done" => HasMessage(err, "output file already exists")

\* the refused call, made with an input that would have converted
C7_Witness ==
    /\ pc = "done"
    /\ outBefore.kind = "file" /\ ~overwrite
    /\ inExists /\ HeaderIsValid /\ ValidRows # {} /\ ~readAllFails(inRecords)
    /\ HasMessage(err, "output file already exists")
    /\ outContent = OldContent

\* C8: with a directory at the output path the call returns a "cannot
\* overwrite a directory" error whatever the overwrite flag, and the input
\* file is never opened.
C8_DirectoryRefused ==
    outBefore.kind = "dir" =>
        /\ ~inOpened /\ ~inOpen /\ ~outOpened
        /\ pc \in {"ConvertBloodPressureCSVToDaily", "done"}
        /\ pc = "done" => HasMessage(err, "cannot overwrite a directory")

\* the refused call, made with overwrite true and a convertible input
C8_Witness ==
    /\ pc = "done"
    /\ outBefore.kind = "dir" /\ overwrite
    /\ inExists /\ HeaderIsValid /\ ValidRows # {} /\ ~readAllFails(inRecords)
    /\ HasMessage(err, "cannot overwrite a directory")

\* what the conversion of the input file leaves in an output file that did
\* not exist before: the header row, then the rows that remain
FreshOutput ==
    UNION {{<<buildHeaderRecord(combineRecordsForSameDay(s).max)>> \o d :
               d \in discardMarkedRecords(combineRecordsForSameDay(s).records)} :
           s \in sortSlice(convertBPDateTimes(InBody))}

\* C9: a successful conversion leaves in the output file what it writes to
\* a path that did not exist, also when it overwrites a file: no row of the
\* previous content remains.
C9_OverwriteReplaces ==
    Succeeded =>
        /\ outContent \in FreshOutput
        /\ \A i \in 1..Len(outContent), j \in 1..Len(outBefore.content) :
               outContent[i] # outBefore.content[j]

\* a successful conversion over an existing file
C9_Witness ==
    /\ Succeeded
    /\ outBefore.kind = "file" /\ overwrite
    /\ outBefore.content # <<>>
    /\ Len(outContent) >= 3

\* C10: when the first record is absent or is not the five expected names,
\* the call returns a header error and the output path is not opened: it is
\* not created, truncated or written.
C10_BadHeaderNoOutput ==
    ~HeaderIsValid =>
        /\ ~outOpened /\ ~outOpen
        /\ outKind = outBefore.kind
        /\ outContent = outBefore.content
        /\ (pc = "done" /\ inExists /\ ~HasMessage(err, "output file already exists")) =>
               IF inRecords = <<>>
               THEN err = <<"failed to read blood pressure CSV header record">>
               ELSE err = <<"header record of input file does not match blood pressure CSV format">>

\* a header with misplaced names, refused with overwrite true on an
\* existing file
C10_Witness ==
    /\ pc = "done"
    /\ inRecords # <<>> /\ Len(inRecords[1]) = 5 /\ inRecords[1] # ColumnNames
    /\ outBefore.kind = "file" /\ overwrite
    /\ err = <<"header record of input file does not match blood pressure CSV format">>
    /\ outContent = OldContent

\* a write to the output file failed
WriteFailed ==
    \/ err = <<"failed to write header to output file">>
    \/ err = <<"failed to write blood pressure data to output file">>

\* the call got as far as an open output file
OutputWasOpened == outOpened /\ err # <<"failed to open output file">>

\* "Date Time 1", "Systolic 1", "Diastolic 1", "Pulse 1", "Note 1"
OneReadingHeader == [c \in 1..5 |-> ColumnNames[c] \o <<32, 49>>]

\* C11: an input of the valid header and no body row converts without error
\* (short of a failing write) to an output of the header row and no body row.
C11_HeaderOnlyInput ==
    (pc = "done" /\ inRecords = <<ColumnNames>> /\ OutputWasOpened) =>
        /\ err = <<>> \/ WriteFailed
        /\ err = <<>> => outContent = <<OneReadingHeader>>

\* the conversion of the header alone, done
C11_Witness ==
    /\ Succeeded
    /\ inRecords = <<ColumnNames>>
    /\ outContent = <<OneReadingHeader>>
    /\ records = <<>>

\* a body row of the input does not have the header's five fields
BodyIsMalformed ==
    /\ HeaderIsValid
    /\ \E i \in 2..Len(inRecords) : Len(inRecords[i]) # 5

\* C12: when a body row is malformed the conversion ends with "failed to read
\* body of input file" and no row, header or body, is passed to the writer
\* or reaches the output file, whatever the other rows are.
C12_MalformedBodyAborts ==
    BodyIsMalformed =>
        /\ handed = 0 /\ wbuf = <<>> /\ records = <<>>
        /\ outContent = IF OutputWasOpened THEN <<>> ELSE outBefore.content
        /\ (pc = "done" /\ OutputWasOpened) =>
               err = <<"failed to read body of input file">>

\* a malformed row among well formed ones, over an existing file
C12_Witness ==
    /\ pc = "done"
    /\ BodyIsMalformed
    /\ \E i \in 2..Len(inRecords) : Len(inRecords[i]) = 5 /\ ParseOK(inRecords[i][1])
    /\ outBefore.kind = "file"
    /\ err = <<"failed to read body of input file">>
    /\ outContent = <<>>

\* C13: the conversion function of main.go, called by main with overwrite
\* false on an output path that is a regular file, returns an error and
\* leaves the file as it was.
C13_MainGoKeepsExistingFile ==
    (program = "main.go" /\ outBefore.kind = "file" /\ ~overwrite) =>
        /\ outContent = outBefore.content
        /\ pc = "exited" /\ argc = 3 => err # <<>>

\* the command line does not carry exactly two arguments
WrongArgumentCount == argc # 3

\* C14: with an argument count other than two, main reports a usage error,
\* never calls the conversion (no file is opened, created or changed) and,
\* unless under unit test, exits with status 1.
C14_UsageError ==
    WrongArgumentCount =>
        /\ pc \in {"main", "done", "exited"}
        /\ ~inOpened /\ ~outOpened
        /\ outKind = outBefore.kind /\ outContent = outBefore.content
        /\ pc = "exited" =>
               /\ stdout \in {<< <<ArgumentsMessage>> >>, << <<"ERROR - ", UsageMessage>> >>}
               /\ (program = "main.go" \/ ~unitTesting) => mainState = "exit 1"

\* bpdaily run with three arguments and not under unit test, ended
C14_Witness ==
    /\ pc = "exited"
    /\ program = "bpdaily" /\ argc = 4 /\ ~unitTesting
    /\ inExists /\ HeaderIsValid /\ outBefore.kind = "absent" /\ outWritable
    /\ mainState = "exit 1"
    /\ stdout = << <<"ERROR - ", UsageMessage>> >>
    /\ outKind = "absent"

\* C15: every handle the call opened is closed when it returns, and once a
\* row was passed to the csv.Writer the writer is flushed before the output
\* handle is closed.
C15_HandlesReleased ==
    /\ pc = "done" => ~inOpen /\ ~outOpen
    /\ (outOpened /\ ~outOpen /\ handed > 0) => flushCalled

\* the latest day with a valid reading: the day of the last run of the merge
LastDay == CHOOSE d \in InputDays : \A e \in InputDays : ~Less(d, e)

\* the largest of 1 and the reading counts of the days before the last
MostReadingsBeforeLastDay ==
    LET counts == {1} \cup {ReadingsOn(d) : d \in InputDays \ {LastDay}}
    IN CHOOSE m \in counts : \A c \in counts : c <= m

AfterMerge == pc \in {"writeHeader", "discardMarkedRecords", "writeBody", "flush"}

NoValidRow ==
    /\ HeaderIsValid
    /\ Len(InBody) >= 1
    /\ \A i \in 1..Len(InBody) : Len(InBody[i]) = 5 /\ ~ParseOK(InBody[i][1])

C18_ConvertFrame ==
    pc = "sort" =>
        /\ Len(records) = Len(InBody)
        /\ \A i \in 1..Len(InBody) :
               LET raw == InBody[i]
                   row == records[i]
               IN IF Len(raw) = 0 THEN row = <<discardMarker>>
                  ELSE /\ Len(row) = Len(raw)
                       /\ \A k \in 2..Len(raw) : row[k] = raw[k]
                       /\ IF ParseOK(raw[1])
                          THEN IsNormalized(row[1])
                          ELSE row[1] = discardMarker
                       /\ raw = RowMorning => row[1] = TwoReadingRow[1]
                       /\ raw = RowEvening => row[1] = TwoReadingRow[6]

\* a converted row set with a row of no field, a five field row whose
\* timestamp does not parse and a row whose timestamp parses
C18_Witness ==
    /\ pc = "sort"
    /\ \E i, j, k \in 1..Len(records) :
           /\ InBody[i] = <<>> /\ records[i] = <<discardMarker>>
           /\ InBody[j] = RowBadDate /\ Len(records[j]) = 5
                                     /\ records[j][1] = discardMarker
           /\ InBody[k] = RowMorning /\ records[k][1] = TwoReadingRow[1]

\* C19: in the sorted row set the merge loop walks, no row with a valid
\* timestamp is placed after a discard marked row, so every row after the
\* one the loop stops at is discard marked.
C19_DiscardedRowsSortLast ==
    pc = "combineRecordsForSameDay" =>
        \A i, j \in 1..Len(records) :
            (i < j /\ records[i][1] = discardMarker) => records[j][1] = discardMarker

\* a sorted row set whose invalid row came first in the input
C19_Witness ==
    /\ pc = "combineRecordsForSameDay"
    /\ Len(records) >= 3
    /\ ~ParseOK(InBody[1][1]) /\ ParseOK(InBody[2][1])
    /\ records[1][1] # discardMarker
    /\ records[Len(records)][1] = discardMarker

\* the header row of n sets of column names, n below ten
HeaderOfSets(n) ==
    [c \in 1..(5 * n) |-> ColumnNames[((c - 1) % 5) + 1] \o <<32, 49 + ((c - 1) \div 5)>>]

\* the stages of sortInput follow one another in the order of the code
StagesInOrder ==
    /\ pc = "convertBPDateTimes" => pc' = "sort"
    /\ pc = "sort" => pc' = "combineRecordsForSameDay"
    /\ pc = "combineRecordsForSameDay" => pc' = "writeHeader"
    /\ pc = "writeHeader" => pc' \in {"discardMarkedRecords", "closeOutput"}
    /\ pc = "discardMarkedRecords" => pc' = "writeBody"
    /\ pc = "writeBody" => pc' = "flush"

\* the header is with the writer, and no other row, when the discard pass
\* and the body write start; it heads the file of a successful conversion
HeaderFirst ==
    /\ pc \in {"discardMarkedRecords", "writeBody"} =>
           /\ handed = 1
           /\ wbuf = <<HeaderOfSets(maxReadingsInOneDay)>>
           /\ outContent = <<>>
    /\ Succeeded =>
           /\ outContent = <<HeaderOfSets(maxReadingsInOneDay)>> \o records
           /\ handed = 1 + Len(records)

\* C20: a conversion normalizes, sorts, merges, writes the header, discards
\* and trims, then writes the body, in that order; the header is passed to
\* the writer before the discard pass and before any body row, has the width
\* the merge fixed, and is the first row of the output file.
C20_StageOrder == []HeaderFirst /\ [][StagesInOrder]_vars

\* a successful conversion that merged two readings and trimmed rows
C20_Witness ==
    /\ Succeeded
    /\ maxReadingsInOneDay = 2
    /\ Len(outContent[1]) = 10
    /\ Len(OutBody) = 2
    /\ Len(InBody) > Len(OutBody)

\* the output path is a directory, a file that may not be overwritten, or
\* cannot be examined
TargetConflict ==
    \/ outBefore.kind \in {"dir", "noaccess"}
    \/ outBefore.kind = "file" /\ ~overwrite

\* nothing of the output path was touched
OutputUntouched ==
    /\ ~outOpened /\ ~outOpen
    /\ outKind = outBefore.kind
    /\ outContent = outBefore.content

\* nothing was read into the row set or passed to the writer
NothingConverted == records = <<>> /\ handed = 0 /\ wbuf = <<>>

\* C21: the checks run in the order output target, input open, header,
\* output open, body read; the error is that of the first check that fails
\* and no later stage has acted: a target conflict is reported without the
\* input being opened, and a missing input without the output being created
\* or truncated.
C21_FirstFailureWins ==
    IF TargetConflict
    THEN /\ ~inOpened /\ ~inOpen /\ OutputUntouched /\ NothingConverted
         /\ pc = "done" => /\ Len(err) = 2
                           /\ err[1] = "output file already exists"
    ELSE IF ~inExists
    THEN /\ ~inOpen /\ OutputUntouched /\ NothingConverted
         /\ pc = "done" => err = <<"could not open input file">>
    ELSE IF ~HeaderIsValid
    THEN /\ OutputUntouched /\ NothingConverted
         /\ pc = "done" =>
                err \in {<<"failed to read blood pressure CSV header record">>,
                         <<"header record of input file does not match blood pressure CSV format">>}
    ELSE IF ~outWritable
    THEN /\ ~outOpen /\ NothingConverted
         /\ outKind = outBefore.kind /\ outContent = outBefore.content
         /\ pc = "done" => err = <<"failed to open output file">>
    ELSE IF \E i \in 2..Len(inRecords) : Len(inRecords[i]) # 5
    THEN /\ NothingConverted
         /\ pc = "done" => err = <<"failed to read body of input file">>
    ELSE pc = "done" => (err = <<>> \/ WriteFailed)

\* a refused output target with a missing input: the target error, and the
\* input never opened
C21_Witness ==
    /\ pc = "done"
    /\ outBefore.kind = "file" /\ ~overwrite /\ ~inExists
    /\ err = <<"output file already exists", "cannot overwrite existing file">>
    /\ ~inOpened

\* the 5-field groups of an output row, as <<row, group>> positions
GroupsOf(rows) ==
    {<<i, k>> : i \in 1..Len(rows), k \in 0..MaxRows} \cap
    UNION {{<<i, k>> : k \in 0..((Len(rows[i]) - 1) \div 5)} : i \in 1..Len(rows)}

GroupAt(rows, g) == SubSeq(rows[g[1]], 5 * g[2] + 1, Min(5 * g[2] + 5, Len(rows[g[1]])))

\* the group a valid input row is to appear as
GroupFor(row) == <<FormatTime(ParseTime(row[1]))>> \o Tail(row)

\* C22: after a successful conversion every input row with a parseable
\* timestamp is in the output exactly once, as the group of its normalized
\* timestamp and its four original values inside the row of its day, and
\* the output body has as many groups as the input has such rows.
C22_ReadingsConserved ==
    Succeeded =>
        /\ Cardinality(GroupsOf(OutBody)) = Cardinality(ValidRows)
        /\ \A i \in ValidRows :
               LET here == {g \in GroupsOf(OutBody) :
                                GroupAt(OutBody, g) = GroupFor(InBody[i])}
                   same == {j \in ValidRows : InBody[j] = InBody[i]}
               IN  /\ Cardinality(here) = Cardinality(same)
                   /\ \A g \in here :
                          DayPrefix(OutBody[g[1]][1]) = DayOf(InBody[i])
        /\ \A g \in GroupsOf(OutBody) : GroupAt(OutBody, g)[1] # discardMarker

\* the same, for inputs with at least one parseable timestamp
C22_ConservedWhenSomeRowValid ==
    (Succeeded /\ ValidRows # {}) => C22_ReadingsConserved

\* the rows the merge loop reads a day from: those before the first marked
\* row, where the loop stops
RowsMergeReads ==
    {i \in 1..Len(records) : \A j \in 1..i : records[j][1] # discardMarker}

\* C23: for every row set, with empty rows and unparseable timestamps, each
\* row has a field 0 once convertBPDateTimes has run, the merge takes its
\* 10-character day only from 19-character normalized timestamps and never
\* from the discard marker, and trimming an empty row set leaves it empty.
C23_AccessesInRange ==
    /\ pc # "convertBPDateTimes" =>
           \A i \in 1..Len(records) :
               /\ Len(records[i]) >= 1
               /\ \/ records[i][1] = discardMarker
                  \/ IsNormalized(records[i][1])
    /\ pc = "combineRecordsForSameDay" =>
           \A i \in RowsMergeReads :
               /\ Len(records[i][1]) = 19
               /\ Len(dateOf(records[i][1])) = 10
    /\ (pc \notin {"convertBPDateTimes", "sort"} /\ InBody = <<>>) =>
           records = <<>>
    /\ pc = "writeBody" => Len(records) <= Len(InBody)

\* a row set with a row of no fields, a row whose one field is no timestamp
\* and a reading went through the whole pipeline
C23_Witness ==
    /\ pc = "done" /\ err = <<>>
    /\ \E i, j, k \in 1..Len(InBody) :
           /\ InBody[i] = <<>>
           /\ InBody[j] = RowOneField
           /\ InBody[k] = RowMorning
    /\ Len(OutBody) >= 1

====
